---- MODULE Spec2Model ----
(***************************************************************************)
(* Model of the password-based file container of secure-vault-file-keeper. *)
(*                                                                         *)
(* Two revisions of the crypto library are in the source tree:             *)
(*   src/src/lib/crypto.ts   decryptFile / isEncryptedFile                 *)
(*   src/unnamed/part_000    decryptFile / isEncryptedFile with the        *)
(*                           structural validation; modelled here under    *)
(*                           the names decryptFile_v2 / isEncryptedFile_v2 *)
(* deriveKey and encryptFile are the same text in both.                    *)
(*                                                                         *)
(* Representation                                                          *)
(*   bytes      sequences of integers 0..255                               *)
(*   password   sequence of UTF-16 code units (a JS string)                *)
(*   filename   sequence of one-character strings                          *)
(*   text       the JSON text of a file, as a sequence of lexical tokens   *)
(*   JS value   a record [t |-> type tag, v |-> payload]                   *)
(*   Error      a record whose message is a sequence of text fragments,    *)
(*              cut so that every substring the code searches for with     *)
(*              String.includes is a fragment of its own                   *)
(***************************************************************************)
EXTENDS Integers, Sequences, FiniteSets, TLC

\* ------------------------------------------------------------------ bounds
MaxLen == 1        \* longest plaintext, in bytes
MaxPwLen == 1      \* longest password, in code units
MaxNameLen == 3    \* longest input filename, in characters

\* ------------------------------------------------------- program constants
SaltLen == 16      \* crypto.getRandomValues(new Uint8Array(16))
IvLen == 12        \* crypto.getRandomValues(new Uint8Array(12))
TagLen == 16       \* AES-GCM with the default 128-bit tag
HmacBlockLen == 64 \* block size of HMAC-SHA-256, the PRF of PBKDF2
ByteMod == 256     \* element range of a Uint8Array

Byte == 0 .. (ByteMod - 1)

\* --------------------------------------------------------- sequence helpers
RECURSIVE SumTo(_, _)
SumTo(s, n) == IF n = 0 THEN 0 ELSE s[n] + SumTo(s, n - 1)
SumSeq(s) == SumTo(s, Len(s))

RECURSIVE WeightedSumTo(_, _)
WeightedSumTo(s, n) == IF n = 0 THEN 0 ELSE n * s[n] + WeightedSumTo(s, n - 1)
WeightedSum(s) == WeightedSumTo(s, Len(s))

Zeros(n) == [i \in 1 .. n |-> 0]

SeqsUpTo(S, n) == UNION {[1 .. k -> S] : k \in 0 .. n}

MinOf(S) == CHOOSE x \in S : \A y \in S : x <= y

\* String.prototype.endsWith
EndsWith(s, suffix) ==
  /\ Len(s) >= Len(suffix)
  /\ SubSeq(s, Len(s) - Len(suffix) + 1, Len(s)) = suffix

DotEnc == <<".", "e", "n", "c">>

\* String.prototype.includes on a message cut into fragments
Includes(message, fragment) == \E i \in 1 .. Len(message) : message[i] = fragment

\* ------------------------------------------------------------- JS values
JUndefined == [t |-> "undefined", v |-> <<>>]
JNull == [t |-> "null", v |-> <<>>]
JNum(n) == [t |-> "num", v |-> n]
JStr(s) == [t |-> "str", v |-> s]
JArr(elems) == [t |-> "arr", v |-> elems]
\* an object is the sequence of its <<key, value>> members in insertion order
JObj(members) == [t |-> "obj", v |-> members]

JBytes(bytes) == JArr([i \in 1 .. Len(bytes) |-> JNum(bytes[i])])

\* the `in` operator on an object value
HasKey(obj, key) == \E i \in 1 .. Len(obj.v) : obj.v[i][1] = key

\* property read: the last member of that key (JSON.parse keeps the last duplicate);
\* a number, string or array has none of the container's property names
Prop(val, key) ==
  IF val.t = "obj" /\ HasKey(val, key)
  THEN LET i == CHOOSE j \in 1 .. Len(val.v) :
                  /\ val.v[j][1] = key
                  /\ \A m \in (j + 1) .. Len(val.v) : val.v[m][1] # key
       IN val.v[i][2]
  ELSE JUndefined

\* ------------------------------------------------------------- JSON text
Tok(kind, val) == [k |-> kind, v |-> val]
Punct(kind) == Tok(kind, 0)

RECURSIVE Stringify(_)
RECURSIVE StringifyElems(_)
RECURSIVE StringifyMembers(_)
StringifyElems(elems) ==
  IF Len(elems) = 0 THEN <<>>
  ELSE IF Len(elems) = 1 THEN Stringify(elems[1])
  ELSE Stringify(elems[1]) \o <<Punct(",")>> \o StringifyElems(Tail(elems))

StringifyMembers(members) ==
  IF Len(members) = 0 THEN <<>>
  ELSE LET one == <<Tok("key", members[1][1]), Punct(":")>> \o Stringify(members[1][2])
       IN IF Len(members) = 1 THEN one
          ELSE one \o <<Punct(",")>> \o StringifyMembers(Tail(members))

\* JSON.stringify
Stringify(val) ==
  CASE val.t = "num" -> <<Tok("num", val.v)>>
    [] val.t = "str" -> <<Tok("str", val.v)>>
    [] val.t = "arr" -> <<Punct("[")>> \o StringifyElems(val.v) \o <<Punct("]")>>
    [] val.t = "obj" -> <<Punct("{")>> \o StringifyMembers(val.v) \o <<Punct("}")>>
    [] OTHER -> <<Punct("null")>>

ParseOk(val, next) == [ok |-> TRUE, val |-> val, next |-> next]
ParseFail == [ok |-> FALSE, val |-> JUndefined, next |-> 0]

RECURSIVE ParseValue(_, _)
RECURSIVE ParseElems(_, _, _)
RECURSIVE ParseMembers(_, _, _)
\* the elements of an array from token p on, after `[` or `,`
ParseElems(ts, p, acc) ==
  LET r == ParseValue(ts, p) IN
  IF ~r.ok \/ r.next > Len(ts) THEN ParseFail
  ELSE IF ts[r.next].k = "," THEN ParseElems(ts, r.next + 1, Append(acc, r.val))
  ELSE IF ts[r.next].k = "]" THEN ParseOk(JArr(Append(acc, r.val)), r.next + 1)
  ELSE ParseFail

\* the members of an object from token p on, after `{` or `,`
ParseMembers(ts, p, acc) ==
  IF p + 2 > Len(ts) \/ ts[p].k # "key" \/ ts[p + 1].k # ":" THEN ParseFail
  ELSE LET r == ParseValue(ts, p + 2) IN
       IF ~r.ok \/ r.next > Len(ts) THEN ParseFail
       ELSE IF ts[r.next].k = ","
            THEN ParseMembers(ts, r.next + 1, Append(acc, <<ts[p].v, r.val>>))
       ELSE IF ts[r.next].k = "}"
            THEN ParseOk(JObj(Append(acc, <<ts[p].v, r.val>>)), r.next + 1)
       ELSE ParseFail

\* the value that starts at token p
ParseValue(ts, p) ==
  IF p > Len(ts) THEN ParseFail
  ELSE
    CASE ts[p].k = "num" -> ParseOk(JNum(ts[p].v), p + 1)
      [] ts[p].k = "str" -> ParseOk(JStr(ts[p].v), p + 1)
      [] ts[p].k = "null" -> ParseOk(JNull, p + 1)
      [] ts[p].k = "[" -> IF p < Len(ts) /\ ts[p + 1].k = "]"
                          THEN ParseOk(JArr(<<>>), p + 2)
                          ELSE ParseElems(ts, p + 1, <<>>)
      [] ts[p].k = "{" -> IF p < Len(ts) /\ ts[p + 1].k = "}"
                          THEN ParseOk(JObj(<<>>), p + 2)
                          ELSE ParseMembers(ts, p + 1, <<>>)
      [] OTHER -> ParseFail

\* JSON.parse: ok = FALSE stands for the SyntaxError it throws
JSONParse(text) ==
  LET r == ParseValue(text, 1) IN
  IF r.ok /\ r.next = Len(text) + 1 THEN r ELSE ParseFail

\* --------------------------------------------------- platform primitives
IsHighSurrogate(c) == c >= 55296 /\ c <= 56319
IsLowSurrogate(c) == c >= 56320 /\ c <= 57343

\* TextEncoder.encode: UTF-16 code units to UTF-8 bytes; a surrogate pair
\* becomes one 4-byte sequence, a lone surrogate becomes U+FFFD
RECURSIVE TextEncode(_)
TextEncode(units) ==
  IF Len(units) = 0 THEN <<>>
  ELSE LET c == Head(units) IN
    IF c < 128 THEN <<c>> \o TextEncode(Tail(units))
    ELSE IF c < 2048
      THEN <<192 + (c \div 64), 128 + (c % 64)>> \o TextEncode(Tail(units))
    ELSE IF IsHighSurrogate(c) /\ Len(units) >= 2 /\ IsLowSurrogate(units[2])
      THEN LET cp == 65536 + (c - 55296) * 1024 + (units[2] - 56320)
           IN <<240 + (cp \div 262144), 128 + ((cp \div 4096) % 64),
                128 + ((cp \div 64) % 64), 128 + (cp % 64)>>
              \o TextEncode(Tail(Tail(units)))
    ELSE IF IsHighSurrogate(c) \/ IsLowSurrogate(c)
      THEN <<239, 191, 189>> \o TextEncode(Tail(units))
    ELSE <<224 + (c \div 4096), 128 + ((c \div 64) % 64), 128 + (c % 64)>>
         \o TextEncode(Tail(units))

\* The key HMAC works with (RFC 2104): a key shorter than the block is padded on the
\* right with zero bytes up to HmacBlockLen, so two keys that differ only in
\* trailing zero bytes are one key. The model keeps the padded block without its
\* trailing zeros. (A key longer than the block is first hashed; the passwords of
\* the model stay below HmacBlockLen bytes.)
RECURSIVE HmacKeyBlock(_)
HmacKeyBlock(keyBytes) ==
  IF Len(keyBytes) > 0 /\ Len(keyBytes) <= HmacBlockLen /\ keyBytes[Len(keyBytes)] = 0
  THEN HmacKeyBlock(SubSeq(keyBytes, 1, Len(keyBytes) - 1))
  ELSE keyBytes

\* crypto.subtle.importKey + crypto.subtle.deriveKey (PBKDF2, SHA-256, 100000
\* iterations, AES-GCM 256): the derived key is a value determined by the HMAC key
\* block and the salt, and by nothing else. The key is kept symbolic.
deriveKey(password, salt) ==
  [hmacKey |-> HmacKeyBlock(TextEncode(password)), salt |-> salt]

\* AES-GCM. The cipher is the platform's; the model keeps what the program relies
\* on: the output is the input length plus TagLen bytes, decryption recomputes the
\* tag over key, IV and ciphertext body and compares it with the trailing TagLen
\* bytes, and on a match inverts the encryption. The stand-in tag separates any two
\* (key, iv, body) triples that differ in one byte or in length.
GcmKeyStream(key, iv, i) ==
  (SumSeq(key.hmacKey) + SumSeq(key.salt) + SumSeq(iv) + i) % ByteMod

GcmTag(key, iv, body) ==
  LET digests == << WeightedSum(key.hmacKey), SumSeq(key.hmacKey),
                    WeightedSum(key.salt), SumSeq(key.salt), Len(key.salt),
                    WeightedSum(iv), SumSeq(iv), Len(iv),
                    WeightedSum(body), SumSeq(body), Len(body) >>
  IN [j \in 1 .. TagLen |->
        ((IF j <= Len(digests) THEN digests[j] ELSE 0) + j) % ByteMod]

\* variant: the cipher returns the body without the tag
AesGcmEncrypt_NoTag(key, iv, data) ==
  [i \in 1 .. Len(data) |-> (data[i] + GcmKeyStream(key, iv, i)) % ByteMod]

\* crypto.subtle.encrypt({name: 'AES-GCM', iv}, key, data)
AesGcmEncrypt(key, iv, data) ==
  LET body == [i \in 1 .. Len(data) |-> (data[i] + GcmKeyStream(key, iv, i)) % ByteMod]
  IN body \o GcmTag(key, iv, body)

\* variant: the cipher is run in a mode that carries no tag check
AesGcmDecrypt_NoTagCheck(key, iv, data) ==
  IF Len(data) < TagLen THEN [ok |-> FALSE, bytes |-> <<>>]
  ELSE [ok |-> TRUE,
        bytes |-> [i \in 1 .. Len(data) - TagLen |->
                     (data[i] - GcmKeyStream(key, iv, i)) % ByteMod]]

\* crypto.subtle.decrypt({name: 'AES-GCM', iv}, key, data); ok = FALSE stands for
\* the OperationError it rejects with
AesGcmDecrypt(key, iv, data) ==
  IF Len(data) < TagLen THEN [ok |-> FALSE, bytes |-> <<>>]
  ELSE LET body == SubSeq(data, 1, Len(data) - TagLen)
           tag == SubSeq(data, Len(data) - TagLen + 1, Len(data))
       IN IF tag = GcmTag(key, iv, body)
          THEN [ok |-> TRUE,
                bytes |-> [i \in 1 .. Len(body) |->
                             (body[i] - GcmKeyStream(key, iv, i)) % ByteMod]]
          ELSE [ok |-> FALSE, bytes |-> <<>>]

\* ToNumber followed by ToUint8 on one element of an array given to Uint8Array.
\* The strings of the model hold no digits, so a non-empty one is NaN, which is 0.
RECURSIVE ToUint8(_)
ToUint8(val) ==
  CASE val.t = "num" -> val.v % ByteMod
    [] val.t = "arr" -> IF Len(val.v) = 1 THEN ToUint8(val.v[1]) ELSE 0
    [] OTHER -> 0

\* new Uint8Array(x) for a value x read from parsed JSON: an array is converted
\* element by element, a number is a length (RangeError when negative), and
\* undefined, null, a digit-free string or an object without `length` give the
\* empty array. ok = FALSE stands for the RangeError.
NewUint8Array(val) ==
  CASE val.t = "arr" -> [ok |-> TRUE, bytes |-> [i \in 1 .. Len(val.v) |-> ToUint8(val.v[i])]]
    [] val.t = "num" -> IF val.v < 0 THEN [ok |-> FALSE, bytes |-> <<>>]
                        ELSE [ok |-> TRUE, bytes |-> Zeros(val.v)]
    [] OTHER -> [ok |-> TRUE, bytes |-> <<>>]

\* ------------------------------------------------------ errors and results
Err(name, message) == [name |-> name, message |-> message]

\* texts of the engine's own errors; only the fragments the code searches matter
SyntaxErrorMessage == <<"Unexpected token in ", "JSON", " at position 0">>
TypeErrorMessage == <<"Cannot read properties of null">>
TypeErrorInMessage == <<"Cannot use 'in' operator to search for a key">>
RangeErrorMessage == <<"Invalid typed array length">>

\* The text of the OperationError of a failed crypto.subtle.decrypt is not fixed by
\* the Web Crypto specification. Gecko, WebKit and Node use the default text of the
\* DOMException, which names no operation (Chromium's text names none either);
\* an engine is free to name the failed operation.
OperationErrorMessages ==
  { <<"The operation failed for an operation-specific reason">>,
    <<"Failed to ", "decrypt">> }

\* texts thrown by the library (accents dropped)
MsgWrongPassword == <<"Senha incorreta ou arquivo corrompido">>
MsgDecryptFailed == <<"Falha na descriptografia do arquivo">>
MsgNotEncrypted == <<"O arquivo nao e um arquivo criptografado valido">>
MsgInvalidJson == <<"Formato de", " arquivo invalido: nao e um ", "JSON", " valido">>
MsgMissingField(field) ==
  <<"Formato de", " arquivo invalido: campo obrigatorio '", field, "' nao encontrado">>
MsgInvalidData == <<"Formato de", " dados invalido no arquivo criptografado">>

\* the settled promise of encryptFile / decryptFile; calls lists the platform
\* primitives the run invoked, in order
Resolved(blob, filename, calls) ==
  [kind |-> "resolved", blob |-> blob, filename |-> filename, message |-> <<>>,
   calls |-> calls]
Rejected(message, calls) ==
  [kind |-> "rejected", blob |-> <<>>, filename |-> JUndefined, message |-> message,
   calls |-> calls]

\* the value of isEncryptedFile, or the error it let escape
Returned(b) == [thrown |-> FALSE, value |-> b, error |-> Err("", <<>>)]
Thrown(error) == [thrown |-> TRUE, value |-> FALSE, error |-> error]

\* ------------------------------------------------------------ the library
requiredFields == <<"encryptedData", "iv", "salt", "filename", "originalSize">>

\* variant: the pattern /\.[^/]+$/, whose extension may hold dots
StripExtension_FirstDot(name) ==
  LET starts == {i \in 1 .. Len(name) :
                   /\ name[i] = "."
                   /\ i < Len(name)
                   /\ \A j \in (i + 1) .. Len(name) : name[j] # "/"}
  IN IF starts = {} THEN name ELSE SubSeq(name, 1, MinOf(starts) - 1)

\* file.name.replace(/\.[^/.]+$/, ''): the match is a '.' followed, up to the end
\* of the name, by one or more characters that are neither '/' nor '.'
StripExtension(name) ==
  LET starts == {i \in 1 .. Len(name) :
                   /\ name[i] = "."
                   /\ i < Len(name)
                   /\ \A j \in (i + 1) .. Len(name) : name[j] \notin {"/", "."}}
  IN IF starts = {} THEN name ELSE SubSeq(name, 1, MinOf(starts) - 1)

\* variant: the iv and salt members hold each other's bytes
ContainerObject_SwapIvSalt(encryptedData, iv, salt, filename, originalSize) ==
  JObj(<< <<"encryptedData", JBytes(encryptedData)>>,
          <<"iv", JBytes(salt)>>,
          <<"salt", JBytes(iv)>>,
          <<"filename", JStr(filename)>>,
          <<"originalSize", JNum(originalSize)>> >>)

\* the object literal handed to JSON.stringify
ContainerObject(encryptedData, iv, salt, filename, originalSize) ==
  JObj(<< <<"encryptedData", JBytes(encryptedData)>>,
          <<"iv", JBytes(iv)>>,
          <<"salt", JBytes(salt)>>,
          <<"filename", JStr(filename)>>,
          <<"originalSize", JNum(originalSize)>> >>)

\* variant: the container is returned under the name of the input file
encryptFile_SameName(file, password, salt, iv) ==
  LET key == deriveKey(password, salt)
      encryptedData == AesGcmEncrypt(key, iv, file.bytes)
      jsonString == Stringify(ContainerObject(encryptedData, iv, salt,
                                              file.name, Len(file.bytes)))
  IN Resolved(jsonString, JStr(file.name), <<"deriveKey", "encrypt">>)

\* encryptFile(file, password); salt and iv are the values getRandomValues drew.
\* No primitive of the model fails here, so the catch clause is not entered.
encryptFile(file, password, salt, iv) ==
  LET key == deriveKey(password, salt)
      encryptedData == AesGcmEncrypt(key, iv, file.bytes)
      jsonString == Stringify(ContainerObject(encryptedData, iv, salt,
                                              file.name, Len(file.bytes)))
      encryptedFilename == StripExtension(file.name) \o DotEnc
  IN Resolved(jsonString, JStr(encryptedFilename), <<"deriveKey", "encrypt">>)

\* the catch clause of decryptFile (crypto.ts)
decryptFileCatch(error, calls) ==
  IF Includes(error.message, "decrypt")
  THEN Rejected(MsgWrongPassword, calls)
  ELSE Rejected(MsgDecryptFailed, calls)

\* variant: the decrypted length is compared with the originalSize member
decryptFile_CheckSize(file, password, opMsg) ==
  LET parsed == JSONParse(file.text) IN
  IF ~parsed.ok THEN decryptFileCatch(Err("SyntaxError", SyntaxErrorMessage), <<>>)
  ELSE IF parsed.val.t = "null"
    THEN decryptFileCatch(Err("TypeError", TypeErrorMessage), <<>>)
  ELSE
    LET encryptedBuffer == NewUint8Array(Prop(parsed.val, "encryptedData"))
        iv == NewUint8Array(Prop(parsed.val, "iv"))
        salt == NewUint8Array(Prop(parsed.val, "salt"))
    IN IF ~encryptedBuffer.ok \/ ~iv.ok \/ ~salt.ok
       THEN decryptFileCatch(Err("RangeError", RangeErrorMessage), <<>>)
       ELSE LET key == deriveKey(password, salt.bytes)
                decryptedData == AesGcmDecrypt(key, iv.bytes, encryptedBuffer.bytes)
            IN IF ~decryptedData.ok
               THEN decryptFileCatch(Err("OperationError", opMsg),
                                     <<"deriveKey", "decrypt">>)
               ELSE IF Prop(parsed.val, "originalSize") # JNum(Len(decryptedData.bytes))
               THEN decryptFileCatch(Err("Error", <<"size mismatch">>),
                                     <<"deriveKey", "decrypt">>)
               ELSE Resolved(decryptedData.bytes, Prop(parsed.val, "filename"),
                             <<"deriveKey", "decrypt">>)

\* decryptFile(encryptedFile, password) of crypto.ts, on an engine whose
\* OperationError text is opMsg
decryptFile(file, password, opMsg) ==
  LET parsed == JSONParse(file.text) IN
  IF ~parsed.ok THEN decryptFileCatch(Err("SyntaxError", SyntaxErrorMessage), <<>>)
  ELSE IF parsed.val.t = "null"
    THEN decryptFileCatch(Err("TypeError", TypeErrorMessage), <<>>)
  ELSE
    LET encryptedBuffer == NewUint8Array(Prop(parsed.val, "encryptedData"))
        iv == NewUint8Array(Prop(parsed.val, "iv"))
        salt == NewUint8Array(Prop(parsed.val, "salt"))
    IN IF ~encryptedBuffer.ok \/ ~iv.ok \/ ~salt.ok
       THEN decryptFileCatch(Err("RangeError", RangeErrorMessage), <<>>)
       ELSE LET key == deriveKey(password, salt.bytes)
                decryptedData == AesGcmDecrypt(key, iv.bytes, encryptedBuffer.bytes)
            IN IF ~decryptedData.ok
               THEN decryptFileCatch(Err("OperationError", opMsg),
                                     <<"deriveKey", "decrypt">>)
               ELSE Resolved(decryptedData.bytes, Prop(parsed.val, "filename"),
                             <<"deriveKey", "decrypt">>)

\* isEncryptedFile(file) of crypto.ts
isEncryptedFile(file) == Returned(EndsWith(file.name, DotEnc))

\* `key in value`: a TypeError unless value is an object or an array
InOperator(key, val) == val.t = "obj" /\ HasKey(val, key)

\* the try block of isEncryptedFile (part_000)
isEncryptedFileTry(file) ==
  LET fileData == JSONParse(file.text) IN
  IF ~fileData.ok THEN Thrown(Err("SyntaxError", SyntaxErrorMessage))
  ELSE IF fileData.val.t \notin {"obj", "arr"}
    THEN Thrown(Err("TypeError", TypeErrorInMessage))
  ELSE Returned(\A i \in 1 .. Len(requiredFields) :
                  InOperator(requiredFields[i], fileData.val))

\* variant: no catch clause around the try block
isEncryptedFile_v2_NoCatch(file) ==
  IF ~EndsWith(file.name, DotEnc) THEN Returned(FALSE)
  ELSE isEncryptedFileTry(file)

\* isEncryptedFile(file) of part_000
isEncryptedFile_v2(file) ==
  IF ~EndsWith(file.name, DotEnc) THEN Returned(FALSE)
  ELSE LET r == isEncryptedFileTry(file) IN
       IF r.thrown THEN Returned(FALSE) ELSE r

\* the catch clause of decryptFile (part_000)
decryptFileCatch_v2(error, calls) ==
  IF Includes(error.message, "decrypt") \/ Includes(error.message, "importKey")
    THEN Rejected(MsgWrongPassword, calls)
  ELSE IF Includes(error.message, "JSON") THEN Rejected(<<"Formato de", " arquivo invalido">>, calls)
  ELSE IF Includes(error.message, "Formato de") THEN Rejected(error.message, calls)
  ELSE Rejected(<<"Falha na descriptografia do arquivo: ">> \o error.message, calls)

\* decryptFile(encryptedFile, password) of part_000
decryptFile_v2(file, password, opMsg) ==
  LET valid == isEncryptedFile_v2(file)
      parsed == JSONParse(file.text)
  IN
  IF valid.thrown THEN decryptFileCatch_v2(valid.error, <<>>)
  ELSE IF ~valid.value THEN decryptFileCatch_v2(Err("Error", MsgNotEncrypted), <<>>)
  ELSE IF ~parsed.ok THEN decryptFileCatch_v2(Err("Error", MsgInvalidJson), <<>>)
  ELSE IF parsed.val.t \notin {"obj", "arr"}
    THEN decryptFileCatch_v2(Err("TypeError", TypeErrorInMessage), <<>>)
  ELSE
    LET missing == {i \in 1 .. Len(requiredFields) :
                      ~InOperator(requiredFields[i], parsed.val)}
        encryptedBuffer == NewUint8Array(Prop(parsed.val, "encryptedData"))
        iv == NewUint8Array(Prop(parsed.val, "iv"))
        salt == NewUint8Array(Prop(parsed.val, "salt"))
    IN IF missing # {}
       THEN decryptFileCatch_v2(
              Err("Error", MsgMissingField(requiredFields[MinOf(missing)])), <<>>)
       ELSE IF ~encryptedBuffer.ok \/ ~iv.ok \/ ~salt.ok
       THEN decryptFileCatch_v2(Err("Error", MsgInvalidData), <<>>)
       ELSE LET key == deriveKey(password, salt.bytes)
                decryptedData == AesGcmDecrypt(key, iv.bytes, encryptedBuffer.bytes)
            IN IF ~decryptedData.ok
               THEN decryptFileCatch_v2(Err("OperationError", opMsg),
                                        <<"deriveKey", "decrypt">>)
               ELSE Resolved(decryptedData.bytes, Prop(parsed.val, "filename"),
                             <<"deriveKey", "decrypt">>)

\* ------------------------------------------------------------------ inputs
Plaintexts == SeqsUpTo({0, 255}, MaxLen)

\* code units: NUL and 'a'
Passwords == SeqsUpTo({0, 97}, MaxPwLen)

Names == SeqsUpTo({"a", ".", "/"}, MaxNameLen)
        \cup { <<"a", ".", "e", "n", "c">>, <<"a", ".", "b", ".", "c">> }

\* values crypto.getRandomValues may return
Salts == { Zeros(SaltLen), [i \in 1 .. SaltLen |-> (i * 37) % ByteMod] }
Ivs == { Zeros(IvLen), [i \in 1 .. IvLen |-> (i * 101) % ByteMod] }

\* files a user may hand to decryptFile / isEncryptedFile that encryptFile did
\* not write, by what is wrong with them
EncName == <<"x", ".", "e", "n", "c">>
TxtName == <<"x", ".", "t", "x", "t">>

WellFormedMembers ==
  << <<"encryptedData", JBytes(Zeros(TagLen))>>,
     <<"iv", JBytes(Zeros(IvLen))>>,
     <<"salt", JBytes(Zeros(SaltLen))>>,
     <<"filename", JStr(<<"a">>)>>,
     <<"originalSize", JNum(0)>> >>

WithMember(members, k, val) ==
  [members EXCEPT ![k] = <<members[k][1], val>>]

\* values that are no sequence of integers 0..255
WrongShapes ==
  { JStr(<<"a">>), JNull, JNum(3), JNum(-1), JObj(<<>>),
    JArr(<<JStr(<<"a">>)>>), JArr(<<JNum(256)>>), JArr(<<JNum(-1)>>) }

Crafted(class, texts) ==
  { [class |-> class, file |-> [name |-> n, text |-> t]] :
      n \in {EncName, TxtName}, t \in texts }
\* "wrongmeta": a filename that is no text, an originalSize that is no
\* non-negative integer
CraftedFiles ==
  Crafted("unparseable",
          { <<>>, <<Punct("{")>>, <<Tok("junk", 0)>>,
            Stringify(JObj(WellFormedMembers)) \o <<Punct("}")>> })
    \cup Crafted("nonobject",
                 { Stringify(v) : v \in {JNull, JNum(5), JStr(<<"a">>), JArr(<<>>),
                                         JArr(<<JNum(1)>>)} })
    \cup Crafted("missing",
                 { Stringify(JObj(SubSeq(WellFormedMembers, 1, k - 1)
                                    \o SubSeq(WellFormedMembers, k + 1, 5))) :
                     k \in 1 .. 5 }
                   \cup { Stringify(JObj(<<>>)) })
    \cup Crafted("wrongshape",
                 { Stringify(JObj(WithMember(WellFormedMembers, k, w))) :
                     k \in 1 .. 3, w \in WrongShapes })
    \cup Crafted("wrongmeta",
                 { Stringify(JObj(WithMember(WellFormedMembers, 4, w))) :
                     w \in {JNum(1), JNull} }
                   \cup { Stringify(JObj(WithMember(WellFormedMembers, 5, w))) :
                            w \in {JStr(<<"a">>), JNum(-1), JNull} })
    \cup Crafted("wellformed", { Stringify(JObj(WellFormedMembers)) })

\* ------------------------------------------------------------------- state
VARIABLES
  opErrorMessage,   \* the engine's OperationError text, fixed for the session
  stored,           \* the file the user holds for decryption: [name, text]
  origin,           \* where stored comes from (history, read by no operation)
  res,              \* the last call and what it settled with
  invocations,      \* the library calls in flight, by caller: position and locals
  ui                \* the state of the CryptoApp component

vars == <<opErrorMessage, stored, origin, res, invocations, ui>>

NoFile == [name |-> <<>>, text |-> <<>>]
NoOrigin ==
  [kind |-> "none", class |-> "", plaintext |-> <<>>, name |-> <<>>, password |-> <<>>,
   salt |-> <<>>, iv |-> <<>>, field |-> "", index |-> 0]
NoRes == [op |-> "none", password |-> <<>>, target |-> "none", out |-> Returned(FALSE)]

\* callers that may have a library call in flight at the same time
CallIds == {"A", "B"}

NoInput == [name |-> <<>>, bytes |-> <<>>, text |-> <<>>]
Pending ==
  [kind |-> "pending", blob |-> <<>>, filename |-> JUndefined, message |-> <<>>,
   calls |-> <<>>]

\* The activation of one call: the function, the point it waits at, its parameters
\* and its local constants. drawn keeps what crypto.getRandomValues returned to this
\* call, trace the platform primitives it has completed, out its promise.
IdleCall ==
  [op |-> "none", pc |-> "idle", file |-> NoInput, password |-> <<>>,
   drawn |-> [salt |-> <<>>, iv |-> <<>>], salt |-> <<>>, iv |-> <<>>,
   passwordBuffer |-> <<>>, baseKey |-> <<>>,
   key |-> [hmacKey |-> <<>>, salt |-> <<>>], buffer |-> <<>>,
   filename |-> JUndefined, trace |-> <<>>, out |-> Pending]

\* the component before the page is loaded
NoUi == [rev |-> "none"]

Init ==
  /\ opErrorMessage \in OperationErrorMessages
  /\ stored = NoFile
  /\ origin = NoOrigin
  /\ res = NoRes
  /\ invocations = [c \in CallIds |-> IdleCall]
  /\ ui = NoUi

\* The user encrypts a file and keeps the download under the name it came with.
Encrypt(names, plaintexts, passwords, salts, ivs) ==
  \E n \in names, p \in plaintexts, w \in passwords, s \in salts, v \in ivs :
    LET out == encryptFile([name |-> n, bytes |-> p], w, s, v) IN
    /\ stored = NoFile
    /\ stored' = [name |-> out.filename.v, text |-> out.blob]
    /\ origin' = [NoOrigin EXCEPT !.kind = "encrypted", !.plaintext = p, !.name = n,
                                  !.password = w, !.salt = s, !.iv = v]
    /\ res' = [op |-> "encryptFile", password |-> w, target |-> "none", out |-> out]
    /\ UNCHANGED opErrorMessage
    /\ UNCHANGED <<invocations, ui>>

\* One bit of one byte of encryptedData, iv or salt of an intact container changes.
FlipBitIn(byte, bit) ==
  IF (byte \div (2 ^ bit)) % 2 = 1 THEN byte - 2 ^ bit ELSE byte + 2 ^ bit

FlipBit ==
  /\ origin.kind = "encrypted"
  /\ \E k \in 1 .. 3 :
       LET members == JSONParse(stored.text).val.v IN
       \E i \in 1 .. Len(members[k][2].v), bit \in 0 .. 7 :
         LET old == members[k][2].v[i].v
             arr == [members[k][2].v EXCEPT ![i] = JNum(FlipBitIn(old, bit))]
         IN /\ stored' = [stored EXCEPT
                            !.text = Stringify(JObj(WithMember(members, k, JArr(arr))))]
            /\ origin' = [origin EXCEPT !.kind = "flipped",
                                        !.field = requiredFields[k], !.index = i]
  /\ UNCHANGED <<opErrorMessage, res>>
  /\ UNCHANGED <<invocations, ui>>

\* The user picks a file that is no output of encryptFile.
Upload ==
  \E c \in CraftedFiles :
    /\ stored = NoFile
    /\ stored' = c.file
    /\ origin' = [NoOrigin EXCEPT !.kind = "crafted", !.class = c.class]
    /\ res' = NoRes
    /\ UNCHANGED opErrorMessage
    /\ UNCHANGED <<invocations, ui>>

\* The user puts the file away; the next one is encrypted or picked afterwards.
Discard ==
  /\ stored # NoFile
  /\ stored' = NoFile
  /\ origin' = NoOrigin
  /\ res' = NoRes
  /\ UNCHANGED opErrorMessage
  /\ UNCHANGED <<invocations, ui>>

DecryptOps == {"decryptFile", "decryptFile_v2"}

\* the last call was a decryption of the file as it is now
Settled == res.op \in DecryptOps /\ res.target = origin.kind

Decrypt(passwords) ==
  /\ origin.kind # "none"
  /\ \E w \in passwords :
       res' = [op |-> "decryptFile", password |-> w, target |-> origin.kind,
               out |-> decryptFile(stored, w, opErrorMessage)]
  /\ UNCHANGED <<opErrorMessage, stored, origin>>
  /\ UNCHANGED <<invocations, ui>>

Decrypt_v2(passwords) ==
  /\ origin.kind # "none"
  /\ \E w \in passwords :
       res' = [op |-> "decryptFile_v2", password |-> w, target |-> origin.kind,
               out |-> decryptFile_v2(stored, w, opErrorMessage)]
  /\ UNCHANGED <<opErrorMessage, stored, origin>>
  /\ UNCHANGED <<invocations, ui>>

IsEncrypted ==
  /\ origin.kind # "none"
  /\ res' = [op |-> "isEncryptedFile", password |-> <<>>, target |-> origin.kind,
             out |-> isEncryptedFile(stored)]
  /\ UNCHANGED <<opErrorMessage, stored, origin>>
  /\ UNCHANGED <<invocations, ui>>

IsEncrypted_v2 ==
  /\ origin.kind # "none"
  /\ res' = [op |-> "isEncryptedFile_v2", password |-> <<>>, target |-> origin.kind,
             out |-> isEncryptedFile_v2(stored)]
  /\ UNCHANGED <<opErrorMessage, stored, origin>>
  /\ UNCHANGED <<invocations, ui>>

DecryptAny == Decrypt(Passwords)

\* files written by encryptFile and files brought from elsewhere
Next ==
  \/ Encrypt({ <<"a", ".", "b">>, <<"a", ".", "e", "n", "c">> },
             Plaintexts, Passwords, Salts, Ivs)
  \/ Upload
  \/ Discard
  \/ DecryptAny
  \/ Decrypt_v2(Passwords)
  \/ IsEncrypted
  \/ IsEncrypted_v2
Spec == Init /\ [][Next]_vars

\* every input filename
SpecNames ==
  Init /\ [][\/ Encrypt(Names, {<<>>}, {<<97>>}, {Zeros(SaltLen)}, {Zeros(IvLen)})
             \/ Discard
             \/ DecryptAny
             \/ Decrypt_v2(Passwords)
             \/ IsEncrypted
             \/ IsEncrypted_v2]_vars

\* every input filename with every plaintext and password, the written file
\* kept under the name encryptFile returned and handed to isEncryptedFile
SpecRecognise ==
  Init /\ [][\/ Encrypt(Names, Plaintexts, Passwords, {Zeros(SaltLen)}, {Zeros(IvLen)})
             \/ Discard
             \/ IsEncrypted
             \/ IsEncrypted_v2]_vars

\* Containers with one bit changed. The file is encrypted under "a" and opened with
\* "a", with "b", and with "a" followed by NUL; each state of the file is opened
\* once before it changes or is put away.
TamperPassword == <<97>>
TamperPasswords == { <<97>>, <<98>>, <<97, 0>> }
EncryptOne == Encrypt({<<"a", ".", "b">>}, Plaintexts, {TamperPassword},
                      {Zeros(SaltLen)}, {Zeros(IvLen)})
DecryptOnce == ~Settled /\ Decrypt(TamperPasswords)
SpecTamper ==
  Init /\ [][\/ EncryptOne
             \/ FlipBit
             \/ Discard
             \/ DecryptOnce
             \/ (~Settled /\ Decrypt_v2(TamperPasswords))]_vars

\* Containers whose filename or originalSize member was rewritten after encryptFile
\* wrote them; the bytes of encryptedData, iv and salt are as written.
EditMeta ==
  /\ origin.kind \in {"encrypted", "metaedited"}
  /\ LET members == JSONParse(stored.text).val.v IN
     \E k \in {4, 5} :
       \E val \in (IF k = 4 THEN { JStr(<<"z">>), JStr(<<>>), JNum(7), JNull }
                   ELSE { JNum(0), JNum(99), JNum(-1), JStr(<<"a">>), JNull }) :
         /\ members[k][2] # val
         /\ stored' = [stored EXCEPT
                         !.text = Stringify(JObj(WithMember(members, k, val)))]
         /\ origin' = [origin EXCEPT !.kind = "metaedited", !.field = requiredFields[k]]
  /\ res' = NoRes
  /\ UNCHANGED opErrorMessage
  /\ UNCHANGED <<invocations, ui>>

OpenPasswords == { <<97>>, <<98>> }
DecryptMeta == Decrypt(OpenPasswords)
SpecMeta ==
  Init /\ [][\/ EncryptOne
             \/ EditMeta
             \/ Discard
             \/ DecryptMeta
             \/ Decrypt_v2(OpenPasswords)]_vars

\* ---------------------------------------------------------- formatFileSize
\* A byte count is a JS number; the counts that matter here pass 2^31, the largest
\* integer TLC holds. A count is kept as mant * 1024^exp with mant below 2^20, which
\* covers every count with at most two non-zero base-1024 digits.
MaxSizeExp == 4    \* largest exponent of a byte count: up to 2^20 * 1024^4
KiloBytes == 1024  \* const k = 1024

FileSizes ==
  [mant : { 0, 1, 2, 10, 512, 1000, 1023, 1024, 1025, 1029, 1030, 1536, 2047,
            2048, 10240, 102400, 524288, 1047552, 1048570, 1048575 },
   exp : 0 .. MaxSizeExp]

sizes == <<"Bytes", "KB", "MB", "GB">>

\* Math.floor(Math.log(bytes) / Math.log(k)) for bytes > 0
LogFloor(bytes) == bytes.exp + (IF bytes.mant >= KiloBytes THEN 1 ELSE 0)

\* (bytes / Math.pow(k, i)).toFixed(2), in hundredths: the quotient is exact (a
\* division by a power of two) and toFixed rounds it half up
ToFixed2(bytes, i) ==
  LET divisor == IF i > bytes.exp THEN KiloBytes ELSE 1
  IN (200 * bytes.mant + divisor) \div (2 * divisor)

\* parseFloat(...) + ' ' + unit: the number is printed without trailing zeros;
\* decimals holds its digits after the point
NumberText(hundredths, unit) ==
  [whole |-> hundredths \div 100,
   decimals |-> IF hundredths % 100 = 0 THEN <<>>
                ELSE IF hundredths % 10 = 0 THEN <<(hundredths % 100) \div 10>>
                ELSE <<(hundredths % 100) \div 10, hundredths % 10>>,
   unit |-> unit]

\* formatFileSize(bytes); sizes[i] past the end of the list is undefined, which
\* the concatenation prints as "undefined"
formatFileSize(bytes) ==
  IF bytes.mant = 0 THEN NumberText(0, "Bytes")
  ELSE LET i == LogFloor(bytes)
       IN NumberText(ToFixed2(bytes, i),
                     IF i + 1 <= Len(sizes) THEN sizes[i + 1] ELSE "undefined")

FormatFileSize ==
  /\ \E bytes \in FileSizes :
       res' = [op |-> "formatFileSize", password |-> <<>>, target |-> "none",
               out |-> [bytes |-> bytes, text |-> formatFileSize(bytes)]]
  /\ UNCHANGED <<opErrorMessage, stored, origin, invocations, ui>>

SpecSize == Init /\ [][FormatFileSize]_vars

\* ------------------------------------------------------- calls in flight
\* Every exported function is async: it runs up to an await, gives way to whatever
\* else is scheduled, and goes on when the awaited promise settles. One action is
\* the code of one call from one await to the next.
CallName == <<"a", ".", "b">>
CallPlaintexts == { <<>>, <<255>> }
CallPassword == <<97>>

ContainerFile(plaintext, password, salt, iv) ==
  LET out == encryptFile([name |-> CallName, bytes |-> plaintext], password, salt, iv)
  IN [name |-> out.filename.v, bytes |-> <<>>, text |-> out.blob]

\* files handed to the decryptFile calls: two containers written under "a", a
\* record without fields, and a well-formed record under a name without ".enc"
CallContainers ==
  { ContainerFile(p, CallPassword, Zeros(SaltLen), Zeros(IvLen)) : p \in CallPlaintexts }
    \cup { [name |-> EncName, bytes |-> <<>>, text |-> Stringify(JObj(<<>>))],
           [name |-> TxtName, bytes |-> <<>>, text |-> Stringify(JObj(WellFormedMembers))] }

\* decryptFile of crypto.ts from JSON.parse to the three typed arrays
decryptFileParse(file) ==
  LET parsed == JSONParse(file.text)
      encryptedBuffer == NewUint8Array(Prop(parsed.val, "encryptedData"))
      iv == NewUint8Array(Prop(parsed.val, "iv"))
      salt == NewUint8Array(Prop(parsed.val, "salt"))
      failed(error) == [ok |-> FALSE, error |-> error, encryptedBuffer |-> <<>>,
                        iv |-> <<>>, salt |-> <<>>, filename |-> JUndefined]
  IN IF ~parsed.ok THEN failed(Err("SyntaxError", SyntaxErrorMessage))
     ELSE IF parsed.val.t = "null" THEN failed(Err("TypeError", TypeErrorMessage))
     ELSE IF ~encryptedBuffer.ok \/ ~iv.ok \/ ~salt.ok
       THEN failed(Err("RangeError", RangeErrorMessage))
     ELSE [ok |-> TRUE, error |-> Err("", <<>>), encryptedBuffer |-> encryptedBuffer.bytes,
           iv |-> iv.bytes, salt |-> salt.bytes, filename |-> Prop(parsed.val, "filename")]

\* decryptFile of part_000 from JSON.parse to the three typed arrays
decryptFileParse_v2(file) ==
  LET parsed == JSONParse(file.text)
      missing == {i \in 1 .. Len(requiredFields) :
                    ~InOperator(requiredFields[i], parsed.val)}
      encryptedBuffer == NewUint8Array(Prop(parsed.val, "encryptedData"))
      iv == NewUint8Array(Prop(parsed.val, "iv"))
      salt == NewUint8Array(Prop(parsed.val, "salt"))
      failed(error) == [ok |-> FALSE, error |-> error, encryptedBuffer |-> <<>>,
                        iv |-> <<>>, salt |-> <<>>, filename |-> JUndefined]
  IN IF ~parsed.ok THEN failed(Err("Error", MsgInvalidJson))
     ELSE IF parsed.val.t \notin {"obj", "arr"}
       THEN failed(Err("TypeError", TypeErrorInMessage))
     ELSE IF missing # {}
       THEN failed(Err("Error", MsgMissingField(requiredFields[MinOf(missing)])))
     ELSE IF ~encryptedBuffer.ok \/ ~iv.ok \/ ~salt.ok
       THEN failed(Err("Error", MsgInvalidData))
     ELSE [ok |-> TRUE, error |-> Err("", <<>>), encryptedBuffer |-> encryptedBuffer.bytes,
           iv |-> iv.bytes, salt |-> salt.bytes, filename |-> Prop(parsed.val, "filename")]

\* the catch clause of the function the call runs
CatchOf(op, error, trace) ==
  IF op = "decryptFile" THEN decryptFileCatch(error, trace)
  ELSE decryptFileCatch_v2(error, trace)

CallVarsUnchanged == UNCHANGED <<opErrorMessage, stored, origin, res, ui>>

\* deriveKey(password, salt) called on its own: up to the await of importKey
StartDeriveKey(c) ==
  /\ invocations[c].pc = "idle"
  /\ \E w \in { <<>>, <<97>>, <<98>> }, s \in Salts :
       invocations' = [invocations EXCEPT ![c] =
         [IdleCall EXCEPT !.op = "deriveKey", !.pc = "importKey", !.password = w,
                          !.salt = s, !.passwordBuffer = TextEncode(w)]]
  /\ CallVarsUnchanged

\* variant: the salt is drawn once and kept by the module; a call that finds
\* another encryptFile call under way takes that call's salt
StartEncrypt_CachedSalt(c) ==
  /\ invocations[c].pc = "idle"
  /\ \E p \in CallPlaintexts, s \in Salts, v \in Ivs :
       LET others == {d \in CallIds \ {c} : invocations[d].op = "encryptFile"}
           salt == IF others = {} THEN s
                   ELSE invocations[CHOOSE d \in others : TRUE].salt
       IN invocations' = [invocations EXCEPT ![c] =
            [IdleCall EXCEPT !.op = "encryptFile", !.pc = "importKey",
                             !.file = [name |-> CallName, bytes |-> p, text |-> <<>>],
                             !.password = CallPassword,
                             !.drawn = [salt |-> s, iv |-> v], !.salt = salt, !.iv = v,
                             !.passwordBuffer = TextEncode(CallPassword)]]
  /\ CallVarsUnchanged

\* encryptFile(file, password): salt and iv are drawn, deriveKey is entered and
\* waits for importKey
StartEncrypt(c) ==
  /\ invocations[c].pc = "idle"
  /\ \E p \in CallPlaintexts, s \in Salts, v \in Ivs :
       invocations' = [invocations EXCEPT ![c] =
         [IdleCall EXCEPT !.op = "encryptFile", !.pc = "importKey",
                          !.file = [name |-> CallName, bytes |-> p, text |-> <<>>],
                          !.password = CallPassword,
                          !.drawn = [salt |-> s, iv |-> v], !.salt = s, !.iv = v,
                          !.passwordBuffer = TextEncode(CallPassword)]]
  /\ CallVarsUnchanged

\* decryptFile(encryptedFile, password) of crypto.ts: up to the await of text()
StartDecryptOf(c, files) ==
  /\ invocations[c].pc = "idle"
  /\ \E f \in files, w \in OpenPasswords :
       invocations' = [invocations EXCEPT ![c] =
         [IdleCall EXCEPT !.op = "decryptFile", !.pc = "text", !.file = f,
                          !.password = w]]
  /\ CallVarsUnchanged

\* decryptFile of part_000: up to the await of isEncryptedFile
StartDecryptOf_v2(c, files) ==
  /\ invocations[c].pc = "idle"
  /\ \E f \in files, w \in OpenPasswords :
       invocations' = [invocations EXCEPT ![c] =
         [IdleCall EXCEPT !.op = "decryptFile_v2", !.pc = "isEncryptedFile",
                          !.file = f, !.password = w]]
  /\ CallVarsUnchanged

StartDecrypt(c) == StartDecryptOf(c, CallContainers)
StartDecrypt_v2(c) == StartDecryptOf_v2(c, CallContainers)

\* part_000: isEncryptedFile has settled
IsEncryptedFileDone(c) ==
  LET self == invocations[c]
      valid == isEncryptedFile_v2(self.file)
  IN /\ self.pc = "isEncryptedFile"
     /\ invocations' = [invocations EXCEPT ![c] =
          IF valid.value THEN [self EXCEPT !.pc = "text"]
          ELSE [self EXCEPT !.pc = "done",
                            !.out = CatchOf(self.op, Err("Error", MsgNotEncrypted),
                                            self.trace)]]
     /\ CallVarsUnchanged

\* text() has settled: the text is parsed and checked, deriveKey is entered
TextDone(c) ==
  LET self == invocations[c]
      parsed == IF self.op = "decryptFile" THEN decryptFileParse(self.file)
                ELSE decryptFileParse_v2(self.file)
  IN /\ self.pc = "text"
     /\ invocations' = [invocations EXCEPT ![c] =
          IF parsed.ok
          THEN [self EXCEPT !.pc = "importKey", !.buffer = parsed.encryptedBuffer,
                            !.iv = parsed.iv, !.salt = parsed.salt,
                            !.filename = parsed.filename,
                            !.passwordBuffer = TextEncode(self.password)]
          ELSE [self EXCEPT !.pc = "done",
                            !.out = CatchOf(self.op, parsed.error, self.trace)]]
     /\ CallVarsUnchanged

\* variant: the encoded password is kept in one buffer of the module, which a call
\* that entered deriveKey meanwhile has overwritten
ImportKeyDone_SharedBuffer(c) ==
  LET self == invocations[c]
      others == {d \in CallIds \ {c} : invocations[d].pc = "importKey"}
      buffer == IF others = {} THEN self.passwordBuffer
                ELSE invocations[CHOOSE d \in others : TRUE].passwordBuffer
  IN /\ self.pc = "importKey"
     /\ invocations' = [invocations EXCEPT ![c] =
          [self EXCEPT !.pc = "deriveKey", !.baseKey = buffer]]
     /\ CallVarsUnchanged

\* crypto.subtle.importKey has settled: the base key holds the encoded password
ImportKeyDone(c) ==
  LET self == invocations[c] IN
  /\ self.pc = "importKey"
  /\ invocations' = [invocations EXCEPT ![c] =
       [self EXCEPT !.pc = "deriveKey", !.baseKey = self.passwordBuffer]]
  /\ CallVarsUnchanged

\* crypto.subtle.deriveKey has settled, and with it deriveKey
DeriveKeyDone(c) ==
  LET self == invocations[c]
      key == [hmacKey |-> HmacKeyBlock(self.baseKey), salt |-> self.salt]
      trace == Append(self.trace, "deriveKey")
  IN /\ self.pc = "deriveKey"
     /\ invocations' = [invocations EXCEPT ![c] =
          CASE self.op = "deriveKey" ->
                 [self EXCEPT !.pc = "done", !.key = key, !.trace = trace,
                              !.out = [Pending EXCEPT !.kind = "resolved",
                                                      !.calls = trace]]
            [] self.op = "encryptFile" ->
                 [self EXCEPT !.pc = "arrayBuffer", !.key = key, !.trace = trace]
            [] OTHER ->
                 [self EXCEPT !.pc = "decrypt", !.key = key, !.trace = trace]]
     /\ CallVarsUnchanged

\* file.arrayBuffer() has settled
ArrayBufferDone(c) ==
  LET self == invocations[c] IN
  /\ self.pc = "arrayBuffer"
  /\ invocations' = [invocations EXCEPT ![c] =
       [self EXCEPT !.pc = "encrypt", !.buffer = self.file.bytes]]
  /\ CallVarsUnchanged

\* variant: the iv is a variable of the module, which holds what the call that
\* entered encryptFile last has drawn
EncryptDone_SharedIv(c) ==
  LET self == invocations[c]
      others == {d \in CallIds \ {c} : invocations[d].op = "encryptFile"}
      iv == IF others = {} THEN self.iv ELSE invocations[CHOOSE d \in others : TRUE].iv
      encryptedData == AesGcmEncrypt(self.key, iv, self.buffer)
      jsonString == Stringify(ContainerObject(encryptedData, iv, self.salt,
                                              self.file.name, Len(self.file.bytes)))
      trace == Append(self.trace, "encrypt")
  IN /\ self.pc = "encrypt"
     /\ invocations' = [invocations EXCEPT ![c] =
          [self EXCEPT !.pc = "done", !.trace = trace,
                       !.out = Resolved(jsonString,
                                        JStr(StripExtension(self.file.name) \o DotEnc),
                                        trace)]]
     /\ CallVarsUnchanged

\* crypto.subtle.encrypt has settled: the container is written and returned
EncryptDone(c) ==
  LET self == invocations[c]
      encryptedData == AesGcmEncrypt(self.key, self.iv, self.buffer)
      jsonString == Stringify(ContainerObject(encryptedData, self.iv, self.salt,
                                              self.file.name, Len(self.file.bytes)))
      trace == Append(self.trace, "encrypt")
  IN /\ self.pc = "encrypt"
     /\ invocations' = [invocations EXCEPT ![c] =
          [self EXCEPT !.pc = "done", !.trace = trace,
                       !.out = Resolved(jsonString,
                                        JStr(StripExtension(self.file.name) \o DotEnc),
                                        trace)]]
     /\ CallVarsUnchanged

\* variant: a failed decryption is tried again, once, from the key derivation
DecryptDone_Retry(c) ==
  LET self == invocations[c]
      decryptedData == AesGcmDecrypt(self.key, self.iv, self.buffer)
      trace == Append(self.trace, "decrypt")
  IN /\ self.pc = "decrypt"
     /\ invocations' = [invocations EXCEPT ![c] =
          IF decryptedData.ok
          THEN [self EXCEPT !.pc = "done", !.trace = trace,
                            !.out = Resolved(decryptedData.bytes, self.filename, trace)]
          ELSE IF Len(self.trace) < 2
          THEN [self EXCEPT !.pc = "importKey", !.trace = trace]
          ELSE [self EXCEPT !.pc = "done", !.trace = trace,
                            !.out = CatchOf(self.op, Err("OperationError", opErrorMessage),
                                            trace)]]
     /\ CallVarsUnchanged

\* crypto.subtle.decrypt has settled: the plaintext is returned, or the
\* OperationError goes through the catch clause
DecryptDone(c) ==
  LET self == invocations[c]
      decryptedData == AesGcmDecrypt(self.key, self.iv, self.buffer)
      trace == Append(self.trace, "decrypt")
  IN /\ self.pc = "decrypt"
     /\ invocations' = [invocations EXCEPT ![c] =
          IF decryptedData.ok
          THEN [self EXCEPT !.pc = "done", !.trace = trace,
                            !.out = Resolved(decryptedData.bytes, self.filename, trace)]
          ELSE [self EXCEPT !.pc = "done", !.trace = trace,
                            !.out = CatchOf(self.op, Err("OperationError", opErrorMessage),
                                            trace)]]
     /\ CallVarsUnchanged

\* the caller has taken the settled promise; its next call starts afresh
Return(c) ==
  /\ invocations[c].pc = "done"
  /\ invocations' = [invocations EXCEPT ![c] = IdleCall]
  /\ CallVarsUnchanged

\* the code of call c after an await
Resume(c) ==
  \/ IsEncryptedFileDone(c)
  \/ TextDone(c)
  \/ ImportKeyDone(c)
  \/ DeriveKeyDone(c)
  \/ ArrayBufferDone(c)
  \/ EncryptDone(c)
  \/ DecryptDone(c)

NextCalls ==
  \/ \E c \in CallIds : StartDeriveKey(c)
  \/ \E c \in CallIds : StartEncrypt(c)
  \/ \E c \in CallIds : StartDecrypt(c)
  \/ \E c \in CallIds : StartDecrypt_v2(c)
  \/ \E c \in CallIds : Resume(c)
  \/ \E c \in CallIds : Return(c)
SpecCalls == Init /\ [][NextCalls]_vars

\* Two callers, each encrypting the empty file or opening its container or the
\* record without fields. Every promise the platform hands out settles, and the
\* continuation of a settled promise is run: a call that can go on does.
SettleContainers ==
  { ContainerFile(<<>>, CallPassword, Zeros(SaltLen), Zeros(IvLen)),
    [name |-> EncName, bytes |-> <<>>, text |-> Stringify(JObj(<<>>))] }

StartEncryptOne(c) ==
  /\ invocations[c].pc = "idle"
  /\ invocations' = [invocations EXCEPT ![c] =
       [IdleCall EXCEPT !.op = "encryptFile", !.pc = "importKey",
                        !.file = [name |-> CallName, bytes |-> <<>>, text |-> <<>>],
                        !.password = CallPassword,
                        !.drawn = [salt |-> Zeros(SaltLen), iv |-> Zeros(IvLen)],
                        !.salt = Zeros(SaltLen), !.iv = Zeros(IvLen),
                        !.passwordBuffer = TextEncode(CallPassword)]]
  /\ CallVarsUnchanged

NextSettle ==
  \/ \E c \in CallIds : StartEncryptOne(c)
  \/ \E c \in CallIds : StartDecryptOf(c, SettleContainers)
  \/ \E c \in CallIds : StartDecryptOf_v2(c, SettleContainers)
  \/ \E c \in CallIds : Resume(c)
  \/ \E c \in CallIds : Return(c)

\* Weak fairness of Resume(c), WF_vars(Resume(c)), with its enabling condition
\* written out as a state predicate: Resume(c) is enabled exactly when call c
\* waits at an await.
ResumeFair(c) ==
  \/ []<>(invocations[c].pc \in {"idle", "done"})
  \/ []<><<Resume(c)>>_vars

SpecSettle == Init /\ [][NextSettle]_vars /\ \A c \in CallIds : ResumeFair(c)

\* ---------------------------------------------------------- the component
\* CryptoApp is one React component in two revisions: src/components/CryptoApp.tsx
\* and unnamed/part_001 (the definitions named _v2). ui holds the component's
\* state hooks, the progress interval, the library calls its handlers wait for
\* (await, in the order they were made), what the page handed to the browser,
\* and the cleanup timeouts that are scheduled (timers, in the order they fire),
\* each with the file, password, error and progress it was scheduled under.
\* last names the handler that ran in the step to this state, "none" after any
\* other step. current is the counter the interval's callback closes over, kept
\* while the interval runs and 0 once it is cleared and nothing reads it. Both revisions import the library of crypto.ts.
UiRevs == {"CryptoApp.tsx", "part_001"}

MinPasswordLength == 8   \* password.length < 8
ProgressCap == 90        \* the simulated progress stops here
ProgressBelowCap == 45   \* stands for every simulated value under the cap
ProgressDone == 100      \* setProgress(100)
MaxTimers == 1           \* cleanup timeouts scheduled at the same time

\* passwords typed into the field: none, one character short of the policy, and
\* one that meets it
UiPasswords ==
  { <<>>, [i \in 1 .. MinPasswordLength - 1 |-> 97],
    [i \in 1 .. MinPasswordLength |-> 97] }

\* files picked in the file input: a plain file and a container written under
\* the password of MinPasswordLength characters. Of the container the model keeps
\* the text, which is all decryptFile reads; what arrayBuffer() and size give for
\* it is the empty content.
UiFiles ==
  { [name |-> CallName, bytes |-> <<255>>, text |-> <<>>],
    ContainerFile(<<255>>, [i \in 1 .. MinPasswordLength |-> 97],
                  Zeros(SaltLen), Zeros(IvLen)) }

\* useState<FileInfo | null>(null)
NoSelection ==
  [null |-> TRUE, file |-> NoInput, size |-> formatFileSize([mant |-> 0, exp |-> 0])]
\* { file, size: formatFileSize(file.size), type }
FileInfo(file) ==
  [null |-> FALSE, file |-> file,
   size |-> formatFileSize([mant |-> Len(file.bytes), exp |-> 0])]

\* the component as first rendered; error and success null are the empty message
FreshUi(rev) ==
  [rev |-> rev, selectedFile |-> NoSelection, password |-> <<>>,
   processing |-> FALSE, progress |-> 0, error |-> <<>>, success |-> <<>>,
   interval |-> FALSE, current |-> 0, timers |-> <<>>, await |-> <<>>,
   download |-> [blob |-> <<>>, filename |-> JUndefined], toast |-> "",
   last |-> "none"]

\* the page is opened in one of the revisions
LoadPage ==
  /\ ui = NoUi
  /\ \E rev \in UiRevs : ui' = FreshUi(rev)
  /\ UNCHANGED <<opErrorMessage, stored, origin, res, invocations>>

\* resetForm
resetForm(u) ==
  [u EXCEPT !.selectedFile = NoSelection, !.password = <<>>, !.error = <<>>,
            !.success = <<>>, !.progress = 0]

\* variant: the handler starts the call without setProcessing(true)
Started_NotProcessing(u, op, handler) ==
  [u EXCEPT !.error = <<>>, !.success = <<>>,
            !.interval = TRUE, !.current = 0,
            !.await = Append(u.await, [op |-> op, file |-> u.selectedFile.file,
                                       password |-> u.password]),
            !.last = handler]

\* setProcessing(true); setError(null); setSuccess(null); simulateProgress();
\* then the handler calls op and waits for it
Started(u, op, handler) ==
  [u EXCEPT !.processing = TRUE, !.error = <<>>, !.success = <<>>,
            !.interval = TRUE, !.current = 0,
            !.await = Append(u.await, [op |-> op, file |-> u.selectedFile.file,
                                       password |-> u.password]),
            !.last = handler]

\* the awaited calls without the i-th, whose handler goes on
Resumed(u, i) == SubSeq(u.await, 1, i - 1) \o SubSeq(u.await, i + 1, Len(u.await))

\* the catch and finally clauses of handleEncrypt and handleDecrypt, run by the
\* handler that made the i-th awaited call
Failed(u, i, message, title) ==
  [u EXCEPT !.interval = FALSE, !.current = 0, !.progress = 0, !.error = message,
            !.toast = title,
            !.processing = FALSE, !.await = Resumed(u, i), !.last = "none"]

\* the try block after the awaited call resolved, and the finally clause: the
\* download, the success message, and setTimeout of the cleanup. The handlers
\* that call it do so while fewer than MaxTimers timeouts are scheduled.
Succeeded(u, i, out, success, title) ==
  [u EXCEPT !.interval = FALSE, !.current = 0, !.progress = ProgressDone,
            !.download = [blob |-> out.blob, filename |-> out.filename],
            !.success = success, !.toast = title,
            !.timers = Append(u.timers,
                              [selectedFile |-> u.selectedFile,
                               password |-> u.password, error |-> u.error,
                               progress |-> ProgressDone]),
            !.processing = FALSE, !.await = Resumed(u, i), !.last = "none"]

\* ---- CryptoApp.tsx
\* onChange of the file input, which is disabled while processing; the dialog may
\* be closed without a file
handleFileSelect ==
  /\ ui.rev = "CryptoApp.tsx"
  /\ ~ui.processing
  /\ \/ \E file \in UiFiles :
          ui' = [ui EXCEPT !.selectedFile = FileInfo(file), !.error = <<>>,
                           !.success = <<>>, !.last = "none"]
     \/ ui' = [ui EXCEPT !.selectedFile = NoSelection, !.last = "none"]
  /\ UNCHANGED <<opErrorMessage, stored, origin, res, invocations>>

\* onChange of the password input, which is disabled while processing
setPassword ==
  /\ ui.rev = "CryptoApp.tsx"
  /\ ~ui.processing
  /\ \E w \in UiPasswords : ui' = [ui EXCEPT !.password = w, !.last = "none"]
  /\ UNCHANGED <<opErrorMessage, stored, origin, res, invocations>>

\* the Limpar button, disabled while processing (the same in both revisions)
ResetClicked ==
  /\ ui.rev \in UiRevs
  /\ ~ui.processing
  /\ ui' = [resetForm(ui) EXCEPT !.last = "none"]
  /\ UNCHANGED <<opErrorMessage, stored, origin, res, invocations>>

\* handleEncrypt up to its await. The button is disabled while processing; it is
\* disabled without a file or a password too, requests the handler refuses by
\* itself and the model lets through to it.
handleEncrypt ==
  /\ ui.rev = "CryptoApp.tsx"
  /\ ~ui.processing
  /\ ui' = IF ui.selectedFile.null THEN
               [ui EXCEPT !.error = <<"Por favor, selecione um arquivo">>,
                          !.last = "handleEncrypt"]
           ELSE IF ui.password = <<>>
             THEN [ui EXCEPT !.error = <<"Por favor, digite uma senha para criptografar o arquivo">>,
                             !.last = "handleEncrypt"]
           ELSE Started(ui, "encryptFile", "handleEncrypt")
  /\ UNCHANGED <<opErrorMessage, stored, origin, res, invocations>>

\* handleEncrypt from the settled encryptFile on
EncryptFileSettled ==
  /\ ui.rev = "CryptoApp.tsx"
  /\ \E i \in DOMAIN ui.await, s \in {Zeros(SaltLen)}, v \in {Zeros(IvLen)} :
       LET result == encryptFile(ui.await[i].file, ui.await[i].password, s, v) IN
       /\ ui.await[i].op = "encryptFile"
       /\ result.kind = "resolved" => Len(ui.timers) < MaxTimers
       /\ ui' = IF result.kind = "resolved"
                THEN Succeeded(ui, i, result, <<>>, "Criptografia concluida")
                ELSE Failed(ui, i, result.message, "Erro na criptografia")
  /\ UNCHANGED <<opErrorMessage, stored, origin, res, invocations>>

\* handleDecrypt up to its first await
handleDecrypt ==
  /\ ui.rev = "CryptoApp.tsx"
  /\ ~ui.processing
  /\ ui' = IF ui.selectedFile.null
             THEN [ui EXCEPT !.error = <<"Por favor, selecione um arquivo .enc">>,
                             !.last = "handleDecrypt"]
           ELSE IF ui.password = <<>>
             THEN [ui EXCEPT !.error = <<"Por favor, digite a senha para descriptografar o arquivo">>,
                             !.last = "handleDecrypt"]
           ELSE Started(ui, "isEncryptedFile", "handleDecrypt")
  /\ UNCHANGED <<opErrorMessage, stored, origin, res, invocations>>

\* handleDecrypt from the settled isEncryptedFile to the call of decryptFile
IsEncryptedFileSettled ==
  /\ ui.rev = "CryptoApp.tsx"
  /\ \E i \in DOMAIN ui.await :
       LET encrypted == isEncryptedFile(ui.await[i].file) IN
       /\ ui.await[i].op = "isEncryptedFile"
       /\ ui' = IF ~encrypted.value
                THEN Failed(ui, i,
                            <<"O arquivo selecionado nao e um arquivo criptografado valido">>,
                            "Erro na descriptografia")
                ELSE [ui EXCEPT !.await[i].op = "decryptFile", !.last = "none"]
  /\ UNCHANGED <<opErrorMessage, stored, origin, res, invocations>>

\* handleDecrypt from the settled decryptFile on
DecryptFileSettled ==
  /\ ui.rev = "CryptoApp.tsx"
  /\ \E i \in DOMAIN ui.await :
       LET result == decryptFile(ui.await[i].file, ui.await[i].password,
                                 opErrorMessage) IN
       /\ ui.await[i].op = "decryptFile"
       /\ result.kind = "resolved" => Len(ui.timers) < MaxTimers
       /\ ui' = IF result.kind = "resolved"
                THEN Succeeded(ui, i, result, <<>>, "Descriptografia concluida")
                ELSE Failed(ui, i, result.message, "Erro na descriptografia")
  /\ UNCHANGED <<opErrorMessage, stored, origin, res, invocations>>

\* one period of the interval simulateProgress started
ProgressTick ==
  /\ ui.rev = "CryptoApp.tsx"
  /\ ui.interval
  /\ \E progress \in {ProgressBelowCap, ProgressCap} :
       /\ progress >= ui.current
       /\ ui' = [ui EXCEPT !.current = progress, !.progress = progress,
                           !.last = "none"]
  /\ UNCHANGED <<opErrorMessage, stored, origin, res, invocations>>

\* setTimeout(() => window.location.reload(), 2000) fires: the page starts again,
\* and with it go the state, the timers and whatever a handler waited for
Reload ==
  /\ ui.rev = "CryptoApp.tsx"
  /\ ui.timers # <<>>
  /\ ui' = [FreshUi(ui.rev) EXCEPT !.download = ui.download, !.last = "none"]
  /\ UNCHANGED <<opErrorMessage, stored, origin, res, invocations>>

\* ---- part_001
\* onChange of the file input; a dialog closed without a file changes nothing
handleFileSelect_v2 ==
  /\ ui.rev = "part_001"
  /\ \/ \E file \in UiFiles :
          ui' = [ui EXCEPT !.selectedFile = FileInfo(file), !.error = <<>>,
                           !.success = <<>>, !.last = "none"]
     \/ ui' = [ui EXCEPT !.last = "none"]
  /\ UNCHANGED <<opErrorMessage, stored, origin, res, invocations>>

\* onChange of the password input
setPassword_v2 ==
  /\ ui.rev = "part_001"
  /\ \E w \in UiPasswords : ui' = [ui EXCEPT !.password = w, !.last = "none"]
  /\ UNCHANGED <<opErrorMessage, stored, origin, res, invocations>>

\* const isEncrypted = selectedFile && isEncryptedFile(selectedFile.file)
isEncrypted(u) == ~u.selectedFile.null /\ isEncryptedFile(u.selectedFile.file).value

\* handleEncrypt up to its await; the one action button runs it when the selected
\* file is not isEncrypted
handleEncrypt_v2 ==
  /\ ui.rev = "part_001"
  /\ ~ui.processing
  /\ ~isEncrypted(ui)
  /\ ui' = IF ui.selectedFile.null \/ ui.password = <<>>
             THEN [ui EXCEPT !.error = <<"Por favor, selecione um arquivo e digite uma senha">>,
                             !.last = "handleEncrypt"]
           ELSE IF Len(ui.password) < MinPasswordLength
             THEN [ui EXCEPT !.error = <<"A senha deve ter pelo menos 8 caracteres">>,
                             !.last = "handleEncrypt"]
           ELSE Started(ui, "encryptFile", "handleEncrypt")
  /\ UNCHANGED <<opErrorMessage, stored, origin, res, invocations>>

\* handleEncrypt from the settled encryptFile on
EncryptFileSettled_v2 ==
  /\ ui.rev = "part_001"
  /\ \E i \in DOMAIN ui.await, s \in {Zeros(SaltLen)}, v \in {Zeros(IvLen)} :
       LET result == encryptFile(ui.await[i].file, ui.await[i].password, s, v) IN
       /\ ui.await[i].op = "encryptFile"
       /\ result.kind = "resolved" => Len(ui.timers) < MaxTimers
       /\ ui' = IF result.kind = "resolved"
                THEN Succeeded(ui, i, result,
                               <<"Arquivo criptografado com sucesso! Download iniciado: ",
                                 result.filename.v>>,
                               "Criptografia concluida")
                ELSE Failed(ui, i, result.message, "Erro na criptografia")
  /\ UNCHANGED <<opErrorMessage, stored, origin, res, invocations>>

\* handleDecrypt up to its await; the action button runs it when the selected
\* file is isEncrypted
handleDecrypt_v2 ==
  /\ ui.rev = "part_001"
  /\ ~ui.processing
  /\ isEncrypted(ui)
  /\ ui' = IF ui.selectedFile.null \/ ui.password = <<>>
             THEN [ui EXCEPT !.error = <<"Por favor, selecione um arquivo .enc e digite a senha">>,
                             !.last = "handleDecrypt"]
           ELSE IF ~isEncryptedFile(ui.selectedFile.file).value
             THEN [ui EXCEPT !.error = <<"Por favor, selecione um arquivo criptografado (.enc)">>,
                             !.last = "handleDecrypt"]
           ELSE Started(ui, "decryptFile", "handleDecrypt")
  /\ UNCHANGED <<opErrorMessage, stored, origin, res, invocations>>

\* handleDecrypt from the settled decryptFile on
DecryptFileSettled_v2 ==
  /\ ui.rev = "part_001"
  /\ \E i \in DOMAIN ui.await :
       LET result == decryptFile(ui.await[i].file, ui.await[i].password,
                                 opErrorMessage) IN
       /\ ui.await[i].op = "decryptFile"
       /\ result.kind = "resolved" => Len(ui.timers) < MaxTimers
       /\ ui' = IF result.kind = "resolved"
                THEN Succeeded(ui, i, result,
                               <<"Arquivo descriptografado com sucesso! Download iniciado: ",
                                 result.filename.v>>,
                               "Descriptografia concluida")
                ELSE Failed(ui, i, result.message, "Erro na descriptografia")
  /\ UNCHANGED <<opErrorMessage, stored, origin, res, invocations>>

\* one period of the interval simulateProgress started; at the cap the interval
\* clears itself
ProgressTick_v2 ==
  /\ ui.rev = "part_001"
  /\ ui.interval
  /\ \E progress \in {ProgressBelowCap, ProgressCap} :
       /\ progress >= ui.current
       /\ ui' = [ui EXCEPT !.current = IF progress < ProgressCap THEN progress ELSE 0,
                           !.progress = progress,
                           !.interval = progress < ProgressCap, !.last = "none"]
  /\ UNCHANGED <<opErrorMessage, stored, origin, res, invocations>>

\* setTimeout(resetForm, 3000) fires
ResetFormFires ==
  /\ ui.rev = "part_001"
  /\ ui.timers # <<>>
  /\ ui' = [resetForm(ui) EXCEPT !.timers = Tail(ui.timers), !.last = "none"]
  /\ UNCHANGED <<opErrorMessage, stored, origin, res, invocations>>

NextUi ==
  \/ LoadPage
  \/ handleFileSelect
  \/ setPassword
  \/ ResetClicked
  \/ handleEncrypt
  \/ EncryptFileSettled
  \/ handleDecrypt
  \/ IsEncryptedFileSettled
  \/ DecryptFileSettled
  \/ ProgressTick
  \/ Reload
  \/ handleFileSelect_v2
  \/ setPassword_v2
  \/ handleEncrypt_v2
  \/ EncryptFileSettled_v2
  \/ handleDecrypt_v2
  \/ DecryptFileSettled_v2
  \/ ProgressTick_v2
  \/ ResetFormFires

SpecUi == Init /\ [][NextUi]_vars

\* Every promise of the library settles and the handler that awaits it goes on,
\* and every timeout that is scheduled fires: weak fairness of the continuations
\* (the ...Settled actions, the steps of a loaded page that take a call out of
\* await or move it on to the next call) and of the timeouts (Reload and
\* ResetFormFires, the steps that leave fewer timers), with the conditions they
\* are enabled under written out. A call that resolves while MaxTimers timeouts
\* are scheduled goes on after the oldest of them has fired.
UiSettleFair ==
  /\ \/ []<>(ui.rev \notin UiRevs \/ ui.await = <<>>)
     \/ []<><<ui.rev \in UiRevs /\ ui'.await # ui.await
               /\ Len(ui'.await) <= Len(ui.await)
               /\ Len(ui'.timers) >= Len(ui.timers)>>_vars
  /\ \/ []<>(ui.rev \notin UiRevs \/ ui.timers = <<>>)
     \/ []<><<ui.rev \in UiRevs /\ Len(ui'.timers) < Len(ui.timers)>>_vars

SpecUiFair == Init /\ [][NextUi]_vars /\ UiSettleFair

\* ------------------------------------------------------------------ claims
\* The error kinds of the specification, read off the message a call rejects with:
\* the wrong-password text, a text that starts "Formato de", or the unclassified
\* failure text.
ErrorKind(out) ==
  IF out.kind # "rejected" THEN "none"
  ELSE IF out.message = MsgWrongPassword THEN "AuthenticationError"
  ELSE IF Len(out.message) > 0 /\ out.message[1] = "Formato de"
    THEN "MalformedContainerError"
  ELSE "Failure"

IsEncryptedOps == {"isEncryptedFile", "isEncryptedFile_v2"}
DecryptedIntact == res.op \in DecryptOps /\ res.target = "encrypted"
DecryptedFlipped == res.op \in DecryptOps /\ res.target = "flipped"
DecryptedCrafted == res.op \in DecryptOps /\ res.target = "crafted"

\* the password derives the key the container was encrypted under
SameKey(w) == deriveKey(w, origin.salt) = deriveKey(origin.password, origin.salt)

\* C1: decrypting the container encryptFile wrote, kept under the filename
\* encryptFile returned, with the password it was written under, resolves with
\* exactly the plaintext and the original filename.
C1_RoundTrip ==
  (DecryptedIntact /\ res.password = origin.password) =>
     /\ res.out.kind = "resolved"
     /\ res.out.blob = origin.plaintext
     /\ res.out.filename = JStr(origin.name)

C1_Witness ==
  /\ DecryptedIntact
  /\ res.op = "decryptFile_v2"
  /\ res.password = origin.password
  /\ Len(origin.plaintext) > 0
  /\ res.out.kind = "resolved"
  /\ res.out.blob = origin.plaintext

\* C2: decrypting an intact container with a password other than the one it was
\* written under rejects with the wrong-password text (AuthenticationError). Stated
\* for the wrong passwords that derive another key than the right one, so that a
\* violation is a run the cipher rejected; the others are the subject of C4.
C2_WrongPasswordFails ==
  (DecryptedIntact /\ res.password # origin.password /\ ~SameKey(res.password)) =>
     ErrorKind(res.out) = "AuthenticationError"

\* C3: with one bit of encryptedData, iv or salt changed, decrypting with the right
\* password rejects with AuthenticationError and never resolves with a plaintext
\* other than the encrypted one.
C3_TamperDetected ==
  (DecryptedFlipped /\ res.password = origin.password) =>
     /\ ErrorKind(res.out) = "AuthenticationError"
     /\ ~(res.out.kind = "resolved" /\ res.out.blob # origin.plaintext)

C5_MalformedRejected ==
  ( /\ DecryptedCrafted
    /\ EndsWith(stored.name, DotEnc)
    /\ origin.class \in {"unparseable", "missing"} ) =>
     ErrorKind(res.out) = "MalformedContainerError"

\* C6: decrypting a file named *.enc that holds a record with all five fields in which encryptedData, iv or salt
\* is no sequence of integers 0..255 rejects with MalformedContainerError, and no
\* key is derived.
C6_WrongShapeRejected ==
  (DecryptedCrafted /\ EndsWith(stored.name, DotEnc) /\ origin.class = "wrongshape") =>
     /\ ErrorKind(res.out) = "MalformedContainerError"
     /\ res.out.calls = <<>>

\* C7: isEncryptedFile is false for a name that does not end in ".enc", for a text
\* that does not parse, and for a record that lacks one of the five fields.
C7_RejectsInvalid ==
  ( /\ res.op \in IsEncryptedOps
    /\ \/ ~EndsWith(stored.name, DotEnc)
       \/ origin.class \in {"unparseable", "missing"} )
  => res.out.value = FALSE

\* C8: isEncryptedFile is true only for a name ending in ".enc" and a record whose
\* five fields are present and well-typed.
C8_OnlyWellTyped ==
  (res.op \in IsEncryptedOps /\ res.out.value = TRUE) =>
     /\ EndsWith(stored.name, DotEnc)
     /\ origin.kind = "encrypted" \/ origin.class = "wellformed"

\* C9: isEncryptedFile settles with a boolean for every file, whatever its text
\* parses to, lets no error escape, and leaves the file and the session as they were.
C9_Total ==
  [][ res'.op \in IsEncryptedOps =>
        /\ res'.out.thrown = FALSE
        /\ res'.out.value \in BOOLEAN
        /\ stored' = stored
        /\ origin' = origin
        /\ opErrorMessage' = opErrorMessage ]_vars

C9_Witness ==
  /\ res.op = "isEncryptedFile_v2"
  /\ origin.class = "nonobject"
  /\ EndsWith(stored.name, DotEnc)
  /\ res.out.thrown = FALSE
  /\ res.out.value = FALSE

\* the position of the last '.' of a name, 0 when it has none
LastDot(name) ==
  IF \E i \in 1 .. Len(name) : name[i] = "."
  THEN CHOOSE i \in 1 .. Len(name) :
         name[i] = "." /\ \A j \in (i + 1) .. Len(name) : name[j] # "."
  ELSE 0

\* C10 as claimed: the returned filename is the input filename with everything
\* from its last '.' onward removed, and ".enc" appended.
C10_OutputName_Claimed ==
  res.op = "encryptFile" =>
    res.out.filename.v =
      (IF LastDot(origin.name) = 0 THEN origin.name
       ELSE SubSeq(origin.name, 1, LastDot(origin.name) - 1)) \o DotEnc

\* C10 as amended: the part from the last '.' onward is removed only when at least
\* one character follows that '.' and no '/' follows it; otherwise the whole name
\* is kept. ".enc" is appended in both cases.
C10_OutputName ==
  res.op = "encryptFile" =>
    LET d == LastDot(origin.name)
        hasExtension ==
          /\ d > 0
          /\ d < Len(origin.name)
          /\ \A j \in (d + 1) .. Len(origin.name) : origin.name[j] # "/"
    IN res.out.filename.v =
         (IF hasExtension THEN SubSeq(origin.name, 1, d - 1) ELSE origin.name) \o DotEnc

\* a name that ends in '.' has been encrypted and kept whole
C10_Witness ==
  /\ res.op = "encryptFile"
  /\ origin.name = <<"a", ".">>
  /\ res.out.filename.v = <<"a", ".", ".", "e", "n", "c">>

\* a JS value that is an array of exactly n integers 0..255
IsByteArray(val, n) ==
  /\ val.t = "arr"
  /\ Len(val.v) = n
  /\ \A i \in 1 .. Len(val.v) : val.v[i].t = "num" /\ val.v[i].v \in Byte

\* C11: the text encryptFile resolves with parses to a record of exactly the five
\* fields, with iv of 12 and salt of 16 elements, encryptedData of
\* len(plaintext) + 16 elements, every element an integer 0..255, filename the
\* unmodified input filename and originalSize the plaintext length.
C11_WellFormed ==
  res.op = "encryptFile" =>
    LET parsed == JSONParse(res.out.blob) IN
    /\ res.out.kind = "resolved"
    /\ parsed.ok
    /\ parsed.val.t = "obj"
    /\ Len(parsed.val.v) = Len(requiredFields)
    /\ \A i \in 1 .. Len(requiredFields) : HasKey(parsed.val, requiredFields[i])
    /\ IsByteArray(Prop(parsed.val, "iv"), IvLen)
    /\ IsByteArray(Prop(parsed.val, "salt"), SaltLen)
    /\ IsByteArray(Prop(parsed.val, "encryptedData"), Len(origin.plaintext) + TagLen)
    /\ Prop(parsed.val, "filename") = JStr(origin.name)
    /\ Prop(parsed.val, "originalSize") = JNum(Len(origin.plaintext))

\* a one-byte plaintext named a.enc has been encrypted under a non-zero salt
C11_Witness ==
  /\ res.op = "encryptFile"
  /\ Len(origin.plaintext) = 1
  /\ origin.name = <<"a", ".", "e", "n", "c">>
  /\ origin.salt # Zeros(SaltLen)
  /\ Len(Prop(JSONParse(res.out.blob).val, "encryptedData").v) = TagLen + 1

\* C12: a container whose filename and/or originalSize member was rewritten still
\* decrypts, with the right password, to the plaintext that was encrypted; the
\* filename returned is the value the container's filename member holds now.
C12_MetadataUnverified ==
  (res.op \in DecryptOps /\ res.target = "metaedited" /\ res.password = origin.password)
  => /\ res.out.kind = "resolved"
     /\ res.out.blob = origin.plaintext
     /\ res.out.filename = Prop(JSONParse(stored.text).val, "filename")

\* a container whose originalSize says 99 and whose filename says "z" has been
\* opened with the right password and gave the one-byte plaintext
C12_Witness ==
  /\ res.op \in DecryptOps
  /\ res.target = "metaedited"
  /\ res.password = origin.password
  /\ Len(origin.plaintext) = 1
  /\ Prop(JSONParse(stored.text).val, "originalSize") = JNum(99)
  /\ res.out.kind = "resolved"
  /\ res.out.filename = JStr(<<"z">>)

\* C18: decrypting a file whose name does not end in ".enc" rejects with
\* MalformedContainerError, and neither key derivation nor the cipher runs.
C18_NonEncRejected ==
  (res.op \in DecryptOps /\ ~EndsWith(stored.name, DotEnc)) =>
     /\ ErrorKind(res.out) = "MalformedContainerError"
     /\ res.out.calls = <<>>

\* C20: in a decryptFile run deriveKey comes first and the cipher second, and they
\* run only on a text that parsed to a record with all five fields; a run on a
\* text that does not parse or lacks a field invokes neither.
C20_DeriveAfterValidation ==
  (res.op \in DecryptOps /\ res.out.calls # <<>>) =>
    LET parsed == JSONParse(stored.text) IN
    /\ res.out.calls[1] = "deriveKey"
    /\ parsed.ok
    /\ parsed.val.t = "obj"
    /\ \A i \in 1 .. Len(requiredFields) : HasKey(parsed.val, requiredFields[i])

\* ---------------------------------------------------- claims on calls in flight
Count(seq, x) == Cardinality({i \in 1 .. Len(seq) : seq[i] = x})
KeyDerived(call) == Count(call.trace, "deriveKey") > 0
EncryptDoneAt(c) == invocations[c].op = "encryptFile" /\ invocations[c].pc = "done"
ContainerOf(c) == JSONParse(invocations[c].out.blob).val
\* the bytes of an array member as the integers they are
BytesOf(val) == [i \in 1 .. Len(val.v) |-> val.v[i].v]

\* C13 as claimed: two encryptFile calls on the same plaintext with the same
\* password have different salts and different nonces, write different ciphertext
\* bytes, and do not both use one (key, nonce) pair.
C13_Fresh_Claimed ==
  \A c, d \in CallIds :
    ( /\ c # d
      /\ EncryptDoneAt(c) /\ EncryptDoneAt(d)
      /\ invocations[c].file.bytes = invocations[d].file.bytes
      /\ invocations[c].password = invocations[d].password )
    => /\ Prop(ContainerOf(c), "salt") # Prop(ContainerOf(d), "salt")
       /\ Prop(ContainerOf(c), "iv") # Prop(ContainerOf(d), "iv")
       /\ Prop(ContainerOf(c), "encryptedData") # Prop(ContainerOf(d), "encryptedData")
       /\ <<invocations[c].key, Prop(ContainerOf(c), "iv")>>
            # <<invocations[d].key, Prop(ContainerOf(d), "iv")>>

\* C13 as amended: a call uses the salt and the nonce crypto.getRandomValues
\* returned to that very call: its container carries them, and its ciphertext opens
\* under the key derived from that salt and under that nonce. Two calls for which
\* the source returned different salts have different salts in their containers,
\* two for which it returned different nonces have different nonces and share no
\* (key, nonce) pair, and in both cases the containers differ.
C13_Fresh ==
  /\ \A c \in CallIds :
       EncryptDoneAt(c) =>
         LET self == invocations[c]
             opened == AesGcmDecrypt(deriveKey(self.password, self.drawn.salt),
                                     self.drawn.iv,
                                     BytesOf(Prop(ContainerOf(c), "encryptedData")))
         IN /\ Prop(ContainerOf(c), "salt") = JBytes(self.drawn.salt)
            /\ Prop(ContainerOf(c), "iv") = JBytes(self.drawn.iv)
            /\ self.key = deriveKey(self.password, self.drawn.salt)
            /\ opened.ok
            /\ opened.bytes = self.file.bytes
  /\ \A c, d \in CallIds :
       (c # d /\ EncryptDoneAt(c) /\ EncryptDoneAt(d)) =>
         /\ invocations[c].drawn.salt # invocations[d].drawn.salt
              => Prop(ContainerOf(c), "salt") # Prop(ContainerOf(d), "salt")
         /\ invocations[c].drawn.iv # invocations[d].drawn.iv
              => /\ Prop(ContainerOf(c), "iv") # Prop(ContainerOf(d), "iv")
                 /\ <<invocations[c].key, Prop(ContainerOf(c), "iv")>>
                      # <<invocations[d].key, Prop(ContainerOf(d), "iv")>>
         /\ invocations[c].drawn # invocations[d].drawn
              => invocations[c].out.blob # invocations[d].out.blob

\* two encryptions of the same one-byte plaintext, begun while the other was under
\* way, have finished with different salts and different nonces
C13_Witness ==
  /\ EncryptDoneAt("A") /\ EncryptDoneAt("B")
  /\ invocations["A"].file.bytes = <<255>>
  /\ invocations["B"].file.bytes = <<255>>
  /\ invocations["A"].drawn.salt # invocations["B"].drawn.salt
  /\ invocations["A"].drawn.iv # invocations["B"].drawn.iv
  /\ invocations["A"].out.blob # invocations["B"].out.blob

\* C14: the key a deriveKey run ends with is determined by the password and the
\* salt that run was given: it is the key of the password's bytes and that salt,
\* whatever other runs are under way or have finished, and two runs with the same
\* password and salt hold the same key.
C14_Deterministic ==
  /\ \A c \in CallIds :
       KeyDerived(invocations[c]) =>
         invocations[c].key = deriveKey(invocations[c].password, invocations[c].salt)
  /\ \A c, d \in CallIds :
       ( /\ KeyDerived(invocations[c]) /\ KeyDerived(invocations[d])
         /\ invocations[c].password = invocations[d].password
         /\ invocations[c].salt = invocations[d].salt )
       => invocations[c].key = invocations[d].key

\* two callers have each run deriveKey for the empty password with the same
\* non-zero salt, and hold the same key
C14_Witness ==
  /\ invocations["A"].op = "deriveKey"
  /\ invocations["A"].pc = "done"
  /\ invocations["A"].password = <<>>
  /\ invocations["B"].op = "deriveKey"
  /\ invocations["B"].pc = "done"
  /\ invocations["B"].password = <<>>
  /\ invocations["A"].salt = invocations["B"].salt
  /\ invocations["A"].salt # Zeros(SaltLen)
  /\ invocations["A"].key = invocations["B"].key

CodecOps == {"encryptFile", "decryptFile", "decryptFile_v2"}

\* the promise of a call is pending until the call is done, and then either
\* resolved with a payload and no error or rejected with an error and no payload;
\* key derivation and the cipher have each completed at most once
CallShape(call) ==
  /\ call.out.kind = "pending" <=> call.pc # "done"
  /\ call.out.kind = "resolved" => call.out.message = <<>>
  /\ call.out.kind = "rejected" =>
       /\ call.out.message # <<>>
       /\ call.out.blob = <<>>
       /\ call.out.filename = JUndefined
  /\ Count(call.trace, "deriveKey") <= 1
  /\ Count(call.trace, "encrypt") + Count(call.trace, "decrypt") <= 1

\* C15: a started encryptFile or decryptFile call settles: its promise is pending
\* until then, settles once, as resolved with the payload or as rejected with an
\* error, and keeps that outcome; key derivation and the cipher run at most once.
C15_SingleTransition ==
  /\ [](\A c \in CallIds : invocations[c].op \in CodecOps => CallShape(invocations[c]))
  /\ [][\A c \in CallIds :
          (invocations[c].pc = "done" /\ invocations'[c].pc = "done")
             => invocations'[c].out = invocations[c].out]_vars
  /\ \A c \in CallIds :
       (invocations[c].op \in CodecOps) ~> (invocations[c].pc = "done")

\* one call has resolved and the other, a decryption with the wrong password, has
\* rejected after one key derivation and one cipher run
C15_Witness ==
  /\ invocations["A"].op = "encryptFile"
  /\ invocations["A"].out.kind = "resolved"
  /\ invocations["B"].op = "decryptFile_v2"
  /\ invocations["B"].out.kind = "rejected"
  /\ invocations["B"].trace = <<"deriveKey", "decrypt">>

\* what the call would settle with as the only call
Alone(call) ==
  CASE call.op = "encryptFile" ->
         encryptFile(call.file, call.password, call.drawn.salt, call.drawn.iv)
    [] call.op = "decryptFile" -> decryptFile(call.file, call.password, opErrorMessage)
    [] call.op = "decryptFile_v2" ->
         decryptFile_v2(call.file, call.password, opErrorMessage)

\* C16: whatever calls run beside it and however their steps interleave, a call
\* settles with what it would settle with as the only call, given the salt and
\* nonce it drew.
C16_Independent ==
  \A c \in CallIds :
    (invocations[c].op \in CodecOps /\ invocations[c].pc = "done")
       => invocations[c].out = Alone(invocations[c])

\* an encryption and a decryption of another plaintext's container, under nonces
\* and salts that differ, have both settled
C16_Witness ==
  /\ EncryptDoneAt("A")
  /\ invocations["A"].file.bytes = <<255>>
  /\ invocations["A"].drawn.iv # Zeros(IvLen)
  /\ invocations["A"].drawn.salt # Zeros(SaltLen)
  /\ invocations["B"].op = "decryptFile"
  /\ invocations["B"].pc = "done"
  /\ invocations["B"].out.kind = "resolved"
  /\ invocations["B"].out.blob = <<>>

\* --------------------------------------------------- claims on formatFileSize
\* the i in 0..3 of the largest power 1024^i that does not exceed a count > 0
LargestUnit(bytes) == IF LogFloor(bytes) > 3 THEN 3 ELSE LogFloor(bytes)

\* C17: the text is a number followed by one of Bytes, KB, MB, GB, the unit of the
\* largest power 1024^i (i in 0..3) that does not exceed the count; 0 gives
\* "0 Bytes", 1536 gives "1.5 KB" and 1048576 gives "1 MB".
C17_FormatFileSize ==
  res.op = "formatFileSize" =>
    LET bytes == res.out.bytes
        text == res.out.text
    IN /\ text.unit \in {"Bytes", "KB", "MB", "GB"}
       /\ bytes.mant > 0 => text.unit = sizes[LargestUnit(bytes) + 1]
       /\ bytes.mant = 0 => text = [whole |-> 0, decimals |-> <<>>, unit |-> "Bytes"]
       /\ bytes = [mant |-> 1536, exp |-> 0]
            => text = [whole |-> 1, decimals |-> <<5>>, unit |-> "KB"]
       /\ bytes = [mant |-> 1024, exp |-> 1]
            => text = [whole |-> 1, decimals |-> <<>>, unit |-> "MB"]

\* C19: an encrypt request made with a password shorter than 8 characters never
\* calls encryptFile: the handler, as it returns, has set an error, waits for no
\* library call and has left processing false.
C19_PasswordPolicy ==
  (ui.rev \in UiRevs /\ ui.last = "handleEncrypt"
     /\ Len(ui.password) < MinPasswordLength)
    => /\ \A i \in DOMAIN ui.await : ui.await[i].op # "encryptFile"
       /\ ui.error # <<>>
       /\ ~ui.processing

\* C21: whatever the input filename, plaintext and password, the file encryptFile
\* returns has a name that ends in ".enc" and a text that parses to a record with
\* all five fields, and isEncryptedFile of either revision answers true on it.
C21_Recognised ==
  origin.kind = "encrypted" =>
    LET parsed == JSONParse(stored.text) IN
    /\ EndsWith(stored.name, DotEnc)
    /\ parsed.ok
    /\ \A i \in 1 .. Len(requiredFields) : InOperator(requiredFields[i], parsed.val)
    /\ (res.op \in IsEncryptedOps => res.out = Returned(TRUE))

\* a file whose name already ended in ".enc" was encrypted and then recognised by
\* the revision that reads the text
C21_Witness ==
  /\ origin.kind = "encrypted"
  /\ origin.name = <<"a", ".", "e", "n", "c">>
  /\ origin.plaintext # <<>>
  /\ res.op = "isEncryptedFile_v2"
  /\ res.out = Returned(TRUE)

\* C22: the action buttons firing only while processing is false, at most one
\* encrypt or decrypt operation is in flight at any time; processing is true
\* exactly while one is; whenever processing is false the progress interval is
\* cleared; a request made with no file or with an empty password leaves
\* processing false; and every started operation is followed by a state with
\* processing false and the interval cleared.
C22_SingleFlight ==
  /\ [](ui.rev \in UiRevs =>
          /\ Len(ui.await) <= 1
          /\ ui.processing <=> ui.await # <<>>
          /\ ~ui.processing => ~ui.interval
          /\ (ui.last \in {"handleEncrypt", "handleDecrypt"}
                /\ (ui.selectedFile.null \/ ui.password = <<>>))
               => ~ui.processing)
  /\ (ui.rev \in UiRevs /\ ui.processing)
       ~> (ui.rev \in UiRevs /\ ~ui.processing /\ ~ui.interval)

\* a decryption has been started and has succeeded: its handler has gone on to
\* the download and processing is false again
C22_Witness ==
  /\ ui.rev = "CryptoApp.tsx"
  /\ ui.toast = "Descriptografia concluida"
  /\ ui.progress = ProgressDone
  /\ ui.await = <<>>
  /\ ~ui.processing
  /\ ~ui.interval

\* C23: a cleanup timeout scheduled after a successful operation (resetForm in
\* part_001, the page reload in CryptoApp.tsx) fires only while no encrypt or
\* decrypt operation is in flight, and the step in which it fires leaves every
\* one of the selected file, the password, the error and the progress value
\* that is no longer what it was when the timeout was scheduled as it is.
C23_CleanupScoped ==
  [][(ui.rev \in UiRevs /\ ui'.rev = ui.rev /\ Len(ui'.timers) < Len(ui.timers))
       => LET scheduled == Head(ui.timers) IN
          /\ ui.await = <<>>
          /\ \A x \in {"selectedFile", "password", "error", "progress"} :
               ui[x] # scheduled[x] => ui'[x] = ui[x]]_vars

====
